---- MODULE Spec2Model ----
(***************************************************************************)
(* hack/cvo-unmanage.py: fetch clusterversion/version with `oc get`, merge *)
(* an {unmanaged: true} override for (namespace, name) into                *)
(* spec.overrides, and `oc apply` the document if the merge modified it.   *)
(*                                                                         *)
(* JSON values are modelled by their JSON text: "true", "false", "\"yes\"" *)
(* ...; a JSON object is a function whose DOMAIN is the set of keys that   *)
(* are present, so an absent key is really absent.                         *)
(***************************************************************************)
EXTENDS Integers, Sequences, FiniteSets, TLC

\* ---------------------------------------------------------------- bounds
\* Longest spec.overrides list of the initial remote document.
MaxLen == 2
\* How many times another actor edits the remote document.
MaxOther == 1

\* ------------------------------------------------------------ JSON values
\* What dict.get(key) returns for an absent key (Python's None).
None == "None"
\* Marks "leave this key out" while building an entry; never a value.
Missing == "<missing>"
JTrue == "true"
JFalse == "false"
\* A truthy value that is not the boolean true (the JSON string "yes").
JYes == "\"yes\""

\* dict.get(key)
Get(d, k) == IF k \in DOMAIN d THEN d[k] ELSE None

\* d[key] = v (the key is added when absent)
SetItem(d, k, v) == [x \in DOMAIN d \cup {k} |-> IF x = k THEN v ELSE d[x]]

\* d.setdefault(key, v): the dict after the call (the call returns d[key]).
SetDefault(d, k, v) == IF k \in DOMAIN d THEN d ELSE SetItem(d, k, v)

\* Python truthiness of a JSON value, as `not override.get('unmanaged')` sees it.
Truthy(v) == v \notin {None, JFalse, "null", "0", "\"\""}

\* ------------------------------------------------------------ input sets
\* sys.argv[1] and sys.argv[2]
Namespaces == {"openshift-foo", "openshift-bar"}
Names == {"bar", "Bar"}
Targets == {<<"openshift-foo", "bar">>, <<"openshift-bar", "Bar">>}

EntryKeys == {"group", "kind", "name", "namespace", "unmanaged"}

\* An override entry with the keys whose value is Missing left out.
MkEntry(n, ns, u) ==
    LET full == [group |-> "apps/v1", kind |-> "Deployment",
                 name |-> n, namespace |-> ns, unmanaged |-> u]
        keys == {k \in EntryKeys : full[k] # Missing}
    IN  [k \in keys |-> full[k]]

\* The override entries a remote document may hold: an entry for a target with
\* every kind of unmanaged value (true, false, truthy non-boolean, absent), and
\* still-managed entries with every combination of name and namespace, either
\* of which may be absent.
Entries ==
    { MkEntry(t[2], t[1], u) : t \in Targets, u \in {JTrue, JFalse, JYes, Missing} }
        \cup { MkEntry(n, ns, JFalse) : n \in Names \cup {Missing},
                                        ns \in Namespaces \cup {Missing} }

RECURSIVE SeqsUpTo(_, _)
SeqsUpTo(S, n) ==
    IF n = 0 THEN {<<>>}
    ELSE LET shorter == SeqsUpTo(S, n - 1)
         IN  shorter \cup {Append(s, e) : s \in {t \in shorter : Len(t) = n - 1}, e \in S}

\* A ClusterVersion document; spec and spec.overrides may be absent.
BaseDoc == [kind |-> "ClusterVersion"]
BaseSpec == [clusterID |-> "c1"]
DocWith(ovs) == SetItem(BaseDoc, "spec", SetItem(BaseSpec, "overrides", ovs))
InitialDocs ==
    {BaseDoc, SetItem(BaseDoc, "spec", BaseSpec)}
        \cup {DocWith(s) : s \in SeqsUpTo(Entries, MaxLen)}

\* The overrides list of a document, [] when spec or overrides is absent.
OverridesOf(doc) ==
    IF "spec" \in DOMAIN doc /\ "overrides" \in DOMAIN doc["spec"]
    THEN doc["spec"]["overrides"] ELSE <<>>

\* ----------------------------------------------------------------- state
VARIABLES
    argv,           \* <<namespace, name>>                      (lines 7-8)
    remote,         \* clusterversion/version held by the API server
    pc,             \* "get" | "loads" | "merge" | "apply" | "done" | "aborted"
    proc,           \* CompletedProcess of `oc get`             (lines 11-12)
    clusterversion, \* the in-memory document                   (line 13)
    modified,       \* line 17
    applyCalls,     \* the `oc apply` runs of this execution: [input, returncode]
    readDoc,        \* history: the document as json.loads returned it
    otherWrites,    \* history: edits by the other actor so far
    settled         \* history: this run started on the document the previous run computed

vars == <<argv, remote, pc, proc, clusterversion, modified, applyCalls,
          readDoc, otherWrites, settled>>

NoProc == [returncode |-> -1, stdout |-> [decodable |-> FALSE, doc |-> BaseDoc]]

\* json.dumps(doc): the text of a decodable document.
Dumps(doc) == [decodable |-> TRUE, doc |-> doc]
\* Output that json.loads rejects: the empty stdout of a failed `oc get`, or garbage.
Undecodable == [decodable |-> FALSE, doc |-> BaseDoc]

\* Mutant of Loads: undecodable output is swallowed and read as an empty document.
LoadsLenient(stdout) ==
    [raised |-> FALSE, value |-> IF stdout.decodable THEN stdout.doc ELSE BaseDoc]

\* json.loads(proc.stdout) (line 13): raises on text that is no JSON document.
Loads(stdout) ==
    IF stdout.decodable THEN [raised |-> FALSE, value |-> stdout.doc]
    ELSE [raised |-> TRUE, value |-> BaseDoc]

\* Line 14: clusterversion.setdefault('spec', {}).setdefault('overrides', []),
\* the document after both calls.
WithDefaults(doc) ==
    LET d1 == SetDefault(doc, "spec", <<>>)
    IN  SetItem(d1, "spec", SetDefault(d1["spec"], "overrides", <<>>))

\* ------------------------------------------------------------- the merge
\* Mutant of Matches: the namespace is not compared.
MatchesNameOnly(override, namespace, name) ==
    Get(override, "name") = name

\* Line 19: the test of one entry against the target.
Matches(override, namespace, name) ==
    Get(override, "name") = name /\ Get(override, "namespace") = namespace

\* Mutant of FirstMatch: the scan keeps the last matching entry, not the first.
LastMatch(overrides, namespace, name, i) ==
    LET hits == {j \in i..Len(overrides) :
                    /\ Get(overrides[j], "name") = name
                    /\ Get(overrides[j], "namespace") = namespace}
    IN  IF hits = {} THEN 0 ELSE CHOOSE j \in hits : \A k \in hits : k <= j

\* Lines 18-19, 23-24: the index the for loop breaks at, 0 when it runs to its
\* else clause. The scan starts at index i.
RECURSIVE FirstMatch(_, _, _, _)
FirstMatch(overrides, namespace, name, i) ==
    IF i > Len(overrides) THEN 0
    ELSE IF Matches(overrides[i], namespace, name) THEN i
    ELSE FirstMatch(overrides, namespace, name, i + 1)

\* Mutant of MergeFound: modified is set but the entry is not written.
MergeFoundNoWrite(overrides, i) ==
    IF ~Truthy(Get(overrides[i], "unmanaged"))
    THEN [overrides |-> overrides, modified |-> TRUE]
    ELSE [overrides |-> overrides, modified |-> FALSE]

\* Mutant of MergeFound: the entry is written but modified is not set.
MergeFoundNoFlag(overrides, i) ==
    IF ~Truthy(Get(overrides[i], "unmanaged"))
    THEN [overrides |-> [overrides EXCEPT ![i] = SetItem(@, "unmanaged", JTrue)],
          modified |-> FALSE]
    ELSE [overrides |-> overrides, modified |-> FALSE]

\* Mutant of MergeFound: the entry is written and modified set without the test.
MergeFoundAlways(overrides, i) ==
    [overrides |-> [overrides EXCEPT ![i] = SetItem(@, "unmanaged", JTrue)],
     modified |-> TRUE]

\* Lines 20-22: the loop body at the entry the loop breaks at.
MergeFound(overrides, i) ==
    IF ~Truthy(Get(overrides[i], "unmanaged"))
    THEN [overrides |-> [overrides EXCEPT ![i] = SetItem(@, "unmanaged", JTrue)],
          modified |-> TRUE]
    ELSE [overrides |-> overrides, modified |-> FALSE]

\* Mutant of NewOverride: the appended entry is not marked unmanaged.
NewOverrideManaged(namespace, name) ==
    [group |-> "apps/v1", kind |-> "Deployment", name |-> name,
     namespace |-> namespace, unmanaged |-> JFalse]

\* Lines 25-31: the entry the else clause appends.
NewOverride(namespace, name) ==
    [group |-> "apps/v1", kind |-> "Deployment", name |-> name,
     namespace |-> namespace, unmanaged |-> JTrue]

\* Lines 17-32: the list and the flag after the merge.
Merge(overrides, namespace, name) ==
    LET i == FirstMatch(overrides, namespace, name, 1)
    IN  IF i # 0 THEN MergeFound(overrides, i)
        ELSE [overrides |-> Append(overrides, NewOverride(namespace, name)),
              modified |-> TRUE]

\* Mutant of ShouldApply: the document is applied whether modified or not.
AlwaysApply(m) == TRUE

\* Line 35: whether `oc apply` runs.
ShouldApply(m) == m

\* Mutant of ApplyEffect: the write is conditioned on the live document being the
\* one that was read.
ApplyIfUnchanged(live, input, returncode) ==
    IF returncode = 0 /\ live = readDoc THEN input.doc ELSE live

\* Lines 36-37 as the API server sees them: a successful apply replaces the live
\* document by the input, whatever the live document is; a failed one changes nothing.
ApplyEffect(live, input, returncode) ==
    IF returncode = 0 THEN input.doc ELSE live

\* An override some other actor adds for a workload of its own.
OtherEntry ==
    [group |-> "apps/v1", kind |-> "Deployment", name |-> "etcd-operator",
     namespace |-> "openshift-etcd-operator", unmanaged |-> JTrue]

\* --------------------------------------------------------------- actions
Init ==
    /\ argv \in Targets
    /\ remote \in InitialDocs
    /\ pc = "get"
    /\ proc = NoProc
    /\ clusterversion = BaseDoc
    /\ modified = FALSE
    /\ applyCalls = <<>>
    /\ readDoc = BaseDoc
    /\ otherWrites = 0
    /\ settled = FALSE

\* Lines 11-12: `oc get clusterversion/version -o json`. Either it prints the live
\* document and exits 0, or it fails (non-zero exit, nothing on stdout), or it exits 0
\* with output that is no JSON document. The return code is never read.
OcGet ==
    /\ pc = "get"
    /\ \E out \in {"ok", "failed", "garbage"} :
         proc' = CASE out = "ok" -> [returncode |-> 0, stdout |-> Dumps(remote)]
                   [] out = "failed" -> [returncode |-> 1, stdout |-> Undecodable]
                   [] out = "garbage" -> [returncode |-> 0, stdout |-> Undecodable]
    /\ pc' = "loads"
    /\ UNCHANGED <<argv, remote, clusterversion, modified, applyCalls, readDoc,
                   otherWrites, settled>>

\* Lines 13-14: json.loads and the two setdefault calls; an exception of json.loads
\* ends the script with a traceback.
LoadDocument ==
    /\ pc = "loads"
    /\ LET r == Loads(proc.stdout)
       IN  IF r.raised
           THEN /\ pc' = "aborted"
                /\ UNCHANGED <<clusterversion, readDoc>>
           ELSE /\ pc' = "merge"
                /\ readDoc' = r.value
                /\ clusterversion' = WithDefaults(r.value)
    /\ UNCHANGED <<argv, remote, proc, modified, applyCalls, otherWrites, settled>>

\* Lines 17-32: the merge, in place in clusterversion['spec']['overrides'].
MergeOverride ==
    /\ pc = "merge"
    /\ LET m == Merge(OverridesOf(clusterversion), argv[1], argv[2])
       IN  /\ clusterversion' =
                SetItem(clusterversion, "spec",
                        SetItem(clusterversion["spec"], "overrides", m.overrides))
           /\ modified' = m.modified
    /\ pc' = "apply"
    /\ UNCHANGED <<argv, remote, proc, applyCalls, readDoc, otherWrites, settled>>

\* Lines 35-37, modified: `oc apply -f -` on json.dumps(clusterversion). Its return
\* code is not read: the script ends normally whether the apply succeeded or not.
OcApply ==
    /\ pc = "apply"
    /\ ShouldApply(modified)
    /\ \E rc \in {0, 1} :
         LET input == Dumps(clusterversion)
         IN  /\ applyCalls' = Append(applyCalls, [input |-> input, returncode |-> rc])
             /\ remote' = ApplyEffect(remote, input, rc)
    /\ pc' = "done"
    /\ UNCHANGED <<argv, proc, clusterversion, modified, readDoc, otherWrites, settled>>

\* Line 35, not modified: the script ends without a write.
SkipApply ==
    /\ pc = "apply"
    /\ ~ShouldApply(modified)
    /\ pc' = "done"
    /\ UNCHANGED <<argv, remote, proc, clusterversion, modified, applyCalls, readDoc,
                   otherWrites, settled>>

\* The script is run again with the same arguments (lines 7-8). settled records
\* whether the live document is the one the finished run computed.
Rerun ==
    /\ pc \in {"done", "aborted"}
    /\ ~settled
    /\ settled' = (pc = "done" /\ remote = clusterversion)
    /\ pc' = "get"
    /\ proc' = NoProc
    /\ clusterversion' = BaseDoc
    /\ modified' = FALSE
    /\ applyCalls' = <<>>
    /\ readDoc' = BaseDoc
    /\ UNCHANGED <<argv, remote, otherWrites>>

\* Another actor adds an override to the live document between this script's read
\* and its write.
OtherActor ==
    /\ pc \in {"loads", "merge", "apply"}
    /\ otherWrites < MaxOther
    /\ remote' = DocWith(Append(OverridesOf(remote), OtherEntry))
    /\ otherWrites' = otherWrites + 1
    /\ UNCHANGED <<argv, pc, proc, clusterversion, modified, applyCalls, readDoc, settled>>

Next ==
    \/ OcGet
    \/ LoadDocument
    \/ MergeOverride
    \/ OcApply
    \/ SkipApply
    \/ Rerun
    \/ OtherActor

Spec == Init /\ [][Next]_vars

\* ------------------------------------------------------------ properties
\* The target, the list the merge started from and the list it left.
namespace == argv[1]
name == argv[2]
before == OverridesOf(readDoc)
after == OverridesOf(clusterversion)
\* The merge of this run has completed.
Merged == pc \in {"apply", "done"}

\* An entry that has both the target's name and the target's namespace.
IsTarget(e) ==
    /\ "name" \in DOMAIN e /\ e["name"] = name
    /\ "namespace" \in DOMAIN e /\ e["namespace"] = namespace
TargetIdx(s) == {i \in 1..Len(s) : IsTarget(s[i])}
First(s) == CHOOSE i \in TargetIdx(s) : \A j \in TargetIdx(s) : i <= j
\* unmanaged is false or absent.
Managed(e) == "unmanaged" \notin DOMAIN e \/ e["unmanaged"] = JFalse
IsTrue(e) == "unmanaged" \in DOMAIN e /\ e["unmanaged"] = JTrue
\* e with unmanaged set to true and every other key as it was.
Flipped(e) == [k \in DOMAIN e \cup {"unmanaged"} |-> IF k = "unmanaged" THEN JTrue ELSE e[k]]
\* s with the entry at i flipped and every other entry as it was.
FlippedAt(s, i) == [j \in 1..Len(s) |-> IF j = i THEN Flipped(s[j]) ELSE s[j]]
\* The document that was read, with `overrides` as its spec.overrides.
ReadDocWith(overrides) ==
    LET spec == IF "spec" \in DOMAIN readDoc THEN readDoc["spec"] ELSE <<>>
    IN  SetItem(readDoc, "spec", SetItem(spec, "overrides", overrides))

\* C1: `oc apply` runs if and only if the merge set modified: at most once, only
\* after the read and the merge, on the full updated document (the document read
\* with an entry flipped or appended), and never when the first matching entry
\* was already unmanaged.
C1_ApplyIffModified ==
    /\ Len(applyCalls) <= 1
    /\ pc # "done" => applyCalls = <<>>
    /\ pc = "done" => (Len(applyCalls) = 1 <=> modified)
    /\ pc = "done" /\ Len(applyCalls) = 1 =>
          /\ proc.stdout.decodable
          /\ after # before
          /\ applyCalls[1].input = Dumps(ReadDocWith(after))
    /\ pc = "done" /\ TargetIdx(before) # {} /\ ~Managed(before[First(before)]) =>
          applyCalls = <<>>

C1_Witness ==
    /\ pc = "done" /\ modified /\ Len(applyCalls) = 1
    /\ Len(before) > 0

\* C2 as stated: after the merge exactly one entry has the target's name and
\* namespace, and its unmanaged is true.
C2_ExactlyOneAndTrue ==
    Merged =>
        /\ Cardinality(TargetIdx(after)) = 1
        /\ \A i \in TargetIdx(after) : IsTrue(after[i])

\* C2 amended: after the merge at least one entry matches the target and the first
\* of them has a truthy unmanaged; when the list read held at most one matching
\* entry and no matching entry with a truthy non-boolean unmanaged, exactly one
\* entry matches and its unmanaged is true.
C2_FirstMatchUnmanaged ==
    Merged =>
        /\ TargetIdx(after) # {}
        /\ ~Managed(after[First(after)])
        /\ (/\ Cardinality(TargetIdx(before)) <= 1
            /\ \A i \in TargetIdx(before) : Managed(before[i]) \/ IsTrue(before[i]))
           => /\ Cardinality(TargetIdx(after)) = 1
              /\ \A i \in TargetIdx(after) : IsTrue(after[i])

C2_Witness ==
    /\ Merged
    /\ Cardinality(TargetIdx(before)) = 1
    /\ Managed(before[First(before)])
    /\ IsTrue(after[First(after)])

\* C3: when no entry has both the target's name and namespace, the merge appends
\* exactly the entry {apps/v1, Deployment, name, namespace, unmanaged: true} at the
\* end, sets modified, and leaves the prior entries as they were, in order.
C3_NoMatchAppends ==
    Merged /\ TargetIdx(before) = {} =>
        /\ after = Append(before,
                          [group |-> "apps/v1", kind |-> "Deployment", name |-> name,
                           namespace |-> namespace, unmanaged |-> JTrue])
        /\ modified

\* An entry with the target's name and another namespace did not stop the append.
C3_Witness ==
    /\ Merged /\ TargetIdx(before) = {}
    /\ \E i \in 1..Len(before) :
          /\ "name" \in DOMAIN before[i] /\ before[i]["name"] = name
          /\ "namespace" \in DOMAIN before[i] /\ before[i]["namespace"] # namespace
    /\ Len(after) = Len(before) + 1

\* C4 as stated: for every matching entry whose unmanaged is false or absent, the
\* merge flips that entry in place, changes nothing else, and sets modified.
C4_AnyManagedMatchFlipped ==
    Merged =>
        \A i \in TargetIdx(before) :
            Managed(before[i]) => after = FlippedAt(before, i) /\ modified

\* C4 amended: when the first matching entry has unmanaged false or absent, the
\* merge flips that entry in place, changes no other entry and no other key of
\* it, keeps the length, and sets modified.
C4_FirstManagedMatchFlipped ==
    Merged /\ TargetIdx(before) # {} /\ Managed(before[First(before)]) =>
        /\ after = FlippedAt(before, First(before))
        /\ Len(after) = Len(before)
        /\ modified

\* The flipped entry had no unmanaged key and is not the first of the list.
C4_Witness ==
    /\ Merged /\ TargetIdx(before) # {}
    /\ First(before) > 1
    /\ "unmanaged" \notin DOMAIN before[First(before)]
    /\ IsTrue(after[First(before)])

\* C5: when the first matching entry already has unmanaged true, the list is left
\* equal to the one read and modified stays false.
C5_AlreadyUnmanagedNoChange ==
    Merged /\ TargetIdx(before) # {} /\ IsTrue(before[First(before)]) =>
        after = before /\ ~modified

C5_Witness ==
    /\ pc = "done" /\ TargetIdx(before) # {} /\ IsTrue(before[First(before)])
    /\ ~modified

\* C6: merging the merged list again with the same target changes nothing and
\* reports no change; a run that starts on the document the previous run computed
\* leaves modified false and performs no `oc apply`.
C6_Idempotent ==
    /\ Merged => Merge(after, namespace, name) = [overrides |-> after, modified |-> FALSE]
    /\ Merged /\ settled => after = before /\ ~modified
    /\ pc = "done" /\ settled => applyCalls = <<>>

\* A second run, on what the first run wrote, ended without a write.
C6_Witness ==
    /\ pc = "done" /\ settled /\ applyCalls = <<>>
    /\ TargetIdx(after) # {}

\* C7 as stated: when the script ends normally, `oc get` and every `oc apply` it
\* ran exited 0.
C7_SuccessMeansToolsSucceeded ==
    pc = "done" =>
        /\ proc.returncode = 0
        /\ \A i \in 1..Len(applyCalls) : applyCalls[i].returncode = 0

C9_StaleWriteWins ==
    pc = "done" /\ Len(applyCalls) = 1 =>
        /\ applyCalls[1].input = Dumps(ReadDocWith(after))
        /\ applyCalls[1].returncode = 0 =>
              /\ remote = ReadDocWith(after)
              /\ (\A i \in 1..Len(before) : before[i] # OtherEntry) =>
                    \A i \in 1..Len(OverridesOf(remote)) : OverridesOf(remote)[i] # OtherEntry

\* The other actor wrote after the read, and its override has been overwritten.
C9_Witness ==
    /\ pc = "done" /\ otherWrites > 0
    /\ Len(applyCalls) = 1 /\ applyCalls[1].returncode = 0
    /\ \A i \in 1..Len(OverridesOf(remote)) : OverridesOf(remote)[i] # OtherEntry

\* C10: with several matching entries, only the first is examined: every other
\* entry is left as it was and none is removed; the first is flipped when its
\* unmanaged is falsy, and when it is truthy nothing changes and modified stays
\* false, whatever the later duplicates hold.
C10_OnlyFirstDuplicate ==
    Merged /\ Cardinality(TargetIdx(before)) >= 2 =>
        LET f == First(before)
        IN  /\ Len(after) = Len(before)
            /\ \A i \in 1..Len(before) : i # f => after[i] = before[i]
            /\ Managed(before[f]) => after[f] = Flipped(before[f]) /\ modified
            /\ ~Managed(before[f]) => after = before /\ ~modified

\* The first duplicate was already unmanaged, a later one is not, nothing changed.
C10_Witness ==
    /\ pc = "done" /\ Cardinality(TargetIdx(before)) >= 2
    /\ ~Managed(before[First(before)])
    /\ \E i \in TargetIdx(before) : Managed(before[i]) /\ Managed(after[i])
    /\ ~modified /\ applyCalls = <<>>

====
